---------------------------- MODULE Spec2Model ----------------------------
(***************************************************************************)
(* A model of pisms (src/pisms/__init__.py): one command-line session that *)
(* drives a GSM modem over a serial line with AT commands.                 *)
(*                                                                         *)
(* Several specifications share this module:                               *)
(*   Spec      the whole session, App.run: parse_args, setup, the          *)
(*             dispatched operation, cleanup.  One AT exchange is one      *)
(*             step whose outcome the modem decides.                       *)
(*   FairSpec  Spec with the program's own steps taken eventually.         *)
(*   SpecAt    one at_command exchange, byte by byte.                      *)
(*   SpecFrag  collect_fragments: ingestion, then processing.              *)
(*   SpecRecv  receive with its listings and the modem's storage.          *)
(*   SpecAck   the loop of send, its exchanges run byte by byte against a  *)
(*             modem that answers.                                         *)
(*                                                                         *)
(* The name GPIO.  power_up, power_down and parse_args use a free name     *)
(* GPIO (lines 65-88, 147-148).  The module never binds it: the only       *)
(* import, on line 173, is local to setup.  cfg.gpioBound says whether the *)
(* name resolves when run() is entered.  Under the packaged entry point it *)
(* is FALSE and every use raises NameError; TRUE is a host that has bound  *)
(* the driver into the module namespace, the situation the power sequencer *)
(* is written for.                                                         *)
(***************************************************************************)
EXTENDS Integers, Sequences, FiniteSets, TLC

VARIABLES
    \* ---- the session (Spec) ----
    cfg,            \* the parsed command line (the argparse namespace)
    pc,             \* the position of run()
    exc,            \* the exception being propagated, "none" if none
    ret,            \* what self.cmd() returned: "none" (not yet), "True", "False", "None"
    status,         \* run's local variable status
    exitCode,       \* the process's exit status, -1 while it runs
    ser,            \* self.ser: "none", "open", "closed"
    pin,            \* the level of the power pin: "unset", "inactive", "active"
    powered,        \* self.powered
    pinWrites,      \* the number of GPIO.output calls made by power_up and power_down
    powerWaits,     \* the number of time.sleep calls made by power_down
    powerChanges,   \* the number of times self.powered changed value
    powerUpCalled,  \* power_up has been entered
    flushed,        \* power_up has flushed the transport's buffers
    clock,          \* time.time() - (the time check_connection was entered), seconds
    polls,          \* the number of AT+CREG? exchanges made
    lastPoll,       \* the latest AT+CREG? exchange: its result and, when it
                    \* succeeded, the status code found in its response
    regSeen,        \* a poll succeeded and its status code was accepted
    ccDeadline,     \* check_connection's loop ended on its deadline
    chunk,          \* the index of the pdu the send loop is at
    cmgsSent,       \* the chunks whose AT+CMGS command was written
    pduSent,        \* the chunks whose pdu bytes and submit byte were written
    acked,          \* the chunks whose final acknowledgment exchange succeeded
    promptFailed,   \* the chunks whose send-prompt exchange failed
    ackFailed,      \* the chunks whose final acknowledgment exchange failed
    atFailed,       \* some AT exchange of the operation failed
    step,           \* the number of queries modem_info has made
    delLeft,        \* receive: the slots still to delete
    deletes,        \* receive: the delete commands written so far
    printed,        \* receive: the message array was written to stdout
    monLines,       \* monitor: the lines read so far
    hookRuns,       \* monitor: the times the hook was run
    lastLine,       \* monitor: the kind of the line read last, "none" before
    hookStatus,     \* monitor: the exit status of the latest hook run, -1 before
    interrupted,    \* an interrupt was raised inside the try block
    cleanupCut,     \* an interrupt was raised inside cleanup
    \* ---- one at_command exchange (SpecAt) ----
    atPc,           \* the position of at_command
    command,        \* the parameter command
    back,           \* the parameter back, a text
    steps,          \* what at_command has done so far, in order
    rx,             \* the bytes in the transport's input buffer
    tx,             \* the bytes at_command has written
    line,           \* read_until's accumulator, bytes
    taken,          \* the bytes the read has taken from the transport
    timedOut,       \* the read ended on its timeout
    result,         \* the first value at_command returned
    response,       \* the second value at_command returned, a text
    modemLeft,      \* the bytes the modem may still emit
    \* ---- collect_fragments (SpecFrag) ----
    fpc,            \* "ingest" until collect_fragments was called with process=True
    fragments,      \* the dict fragments: for each ref the list of its records
    order,          \* the keys of fragments in insertion order
    slot,           \* the storage index of the next listed message
    held,           \* fragments as it was when processing began
    messages,       \* the first value returned: the reassembled records
    read_idx,       \* the second value returned: the storage indexes
    emitted,        \* the ref each record of messages was built from
    \* ---- receive with its listings (SpecRecv) ----
    rpc,            \* the position of receive
    store,          \* the modem's message storage: what each slot holds
    listed,         \* what the latest call of list_messages returned
    recv_read_idx,  \* receive's local read_idx
    recv_messages,  \* receive's local messages
    stdout,         \* the arrays written to standard output
    todo,           \* the delete commands still to write
    cmds,           \* the delete commands written
    \* ---- send's exchanges with a modem that answers (SpecAck) ----
    spc,            \* the position of send's loop body
    modemSent       \* the bytes the modem has put on the line

sessVars == << cfg, pc, exc, ret, status, exitCode, ser, pin, powered, pinWrites,
               powerWaits, powerChanges, powerUpCalled, flushed, clock, polls, lastPoll,
               regSeen, ccDeadline, chunk, cmgsSent, pduSent, acked, promptFailed, ackFailed,
               atFailed, step, delLeft, deletes, printed, monLines, hookRuns,
               lastLine, hookStatus, interrupted, cleanupCut >>

atVars == << atPc, command, back, steps, rx, tx, line, taken, timedOut, result, response,
            modemLeft >>

fragVars == << fpc, fragments, order, slot, held, messages, read_idx, emitted >>

rcvVars == << rpc, store, listed, recv_read_idx, recv_messages, stdout, todo, cmds >>

ackVars == << spc, modemSent >>

vars == << sessVars, atVars, fragVars, rcvVars, ackVars >>

\* What a step of the session leaves alone: the variables of the other
\* specifications.
subVars == << atVars, fragVars, rcvVars, ackVars >>

\* What a step of at_command leaves alone.
atOuter == << sessVars, fragVars, rcvVars, ackVars >>

(***************************************************************************)
(* Bounds of the model.                                                    *)
(***************************************************************************)
MaxWait == 2
MaxChunks == 2
MaxSlots == 2
MaxLines == 2

Commands == {"send", "recv", "monitor", "clear", "info", "at"}
Policies == {"default", "preserve", "deleteall"}

\* The outcome of one at_command call as its caller sees it: the terminator
\* arrived in time, it did not, or the transport (or the decoding of what
\* was read) raised.
AtOutcomes == {"ok", "fail", "raise"}

\* The status digits a +CREG: line can carry, and those check_connection accepts.
StatusDigits == {"0", "1", "2", "3", "4", "5", "6", "7", "8", "9"}
AcceptedStatus == {"1", "5", "6", "7"}

\* modem_info makes six queries.
InfoQueries == 6


(***************************************************************************)
(* The command lines parse_args can produce (lines 103-139).  Options that *)
(* the chosen command never reads are held at one value.                   *)
(*   pwrpin, pwrup, pwrdown  0 (the default: not configured) or 1          *)
(*   wait                    seconds to wait for registration              *)
(*   nChunks                 the length of sms.to_pdu() for the message    *)
(*   message                 what stdin holds for send                     *)
(*   policy                  recv's --preserve / --deleteall / neither     *)
(*   hook                    monitor's --command is given                  *)
(***************************************************************************)
PowerConfigs ==
    { p \in [pwrpin : {0, 1}, pwrup : {0, 1}, pwrdown : {0, 1}, gpioBound : BOOLEAN] :
        p.pwrpin = 0 => (p.pwrup = 0 /\ p.pwrdown = 0 /\ ~p.gpioBound) }

OpConfigs ==
    { o \in [cmd : Commands, wait : 0..MaxWait, nChunks : 1..MaxChunks,
             message : {"text", "empty"}, policy : Policies, hook : BOOLEAN] :
        /\ o.cmd # "send" => (o.wait = 0 /\ o.nChunks = 1 /\ o.message = "text")
        /\ o.cmd # "recv" => o.policy = "default"
        /\ o.cmd # "monitor" => ~o.hook }

Configs ==
    { [cmd |-> o.cmd, wait |-> o.wait, nChunks |-> o.nChunks, message |-> o.message,
       policy |-> o.policy, hook |-> o.hook, pwrpin |-> p.pwrpin, pwrup |-> p.pwrup,
       pwrdown |-> p.pwrdown, gpioBound |-> p.gpioBound] :
        o \in OpConfigs, p \in PowerConfigs }

\* App.__init__ (lines 52-56) and the first line of App.run (line 376).
SessZero ==
    /\ exc = "none"
    /\ ret = "none"
    /\ status = 0
    /\ exitCode = -1
    /\ ser = "none"
    /\ pin = "unset"
    /\ powered = FALSE
    /\ pinWrites = 0
    /\ powerWaits = 0
    /\ powerChanges = 0
    /\ powerUpCalled = FALSE
    /\ flushed = FALSE
    /\ clock = 0
    /\ polls = 0
    /\ lastPoll = [ok |-> FALSE, status |-> "none"]
    /\ regSeen = FALSE
    /\ ccDeadline = FALSE
    /\ chunk = 0
    /\ cmgsSent = {}
    /\ pduSent = {}
    /\ acked = {}
    /\ promptFailed = {}
    /\ ackFailed = {}
    /\ atFailed = FALSE
    /\ step = 0
    /\ delLeft = 0
    /\ deletes = 0
    /\ printed = FALSE
    /\ monLines = 0
    /\ hookRuns = 0
    /\ lastLine = "none"
    /\ hookStatus = -1
    /\ interrupted = FALSE
    /\ cleanupCut = FALSE

\* The variables of an exchange that is not under way.
AtZero ==
    /\ atPc = "off"
    /\ command = "none"
    /\ back = << >>
    /\ steps = << >>
    /\ rx = << >>
    /\ tx = << >>
    /\ line = << >>
    /\ taken = << >>
    /\ timedOut = FALSE
    /\ result = FALSE
    /\ response = << >>
    /\ modemLeft = 0

\* Line 274, fragments = {}, and nothing returned yet.
FragZero ==
    /\ fragments = << >>
    /\ order = << >>
    /\ slot = 1
    /\ held = << >>
    /\ messages = << >>
    /\ read_idx = << >>
    /\ emitted = << >>

\* Lines 273-275 of receive, before anything was listed.
RcvZero ==
    /\ store = << >>
    /\ listed = [result |-> FALSE, messages |-> << >>]
    /\ recv_read_idx = << >>
    /\ recv_messages = << >>
    /\ stdout = << >>
    /\ todo = << >>
    /\ cmds = << >>

\* The modem has sent nothing.
AckZero ==
    /\ modemSent = << >>

Init ==
    /\ cfg \in Configs
    /\ pc = "parse_args"
    /\ SessZero
    /\ AtZero
    /\ fpc = "off"
    /\ FragZero
    /\ rpc = "off"
    /\ RcvZero
    /\ spc = "off"
    /\ AckZero

ctlVars == << exc, ret, status, exitCode >>
powerVars == << pin, powered, pinWrites, powerWaits, powerChanges, powerUpCalled, flushed >>
regVars == << clock, polls, lastPoll, regSeen, ccDeadline >>
sendVars == << chunk, cmgsSent, pduSent, acked, promptFailed, ackFailed >>
recvVars == << delLeft, deletes, printed >>
monVars == << monLines, hookRuns, lastLine, hookStatus >>
sigVars == << interrupted, cleanupCut >>

(***************************************************************************)
(* Where control is.                                                       *)
(***************************************************************************)
PreTry == {"parse_args", "setup", "setup_gpio"}
InCleanup == {"cl_close", "pd_start", "pd_hold", "pd_settle", "cl_end"}
InTry == {"try", "send_read", "pu_start", "pu_hold", "pu_mark", "pu_flush", "cc_test",
          "cc_poll", "cc_sleep", "send_cmgf", "send_prompt", "send_body", "rx_cmgf", "rx_cpms",
          "rx_list_read", "rx_list_unread", "rx_del", "clr_cmgd", "info_q", "at_cmd",
          "mon_read"}

\* LeaveTry with cleanup called after the try statement instead of in a
\* finally clause: an exception the except clause does not name skips it.
LeaveTryNoFinally(e) == IF e \in {"none", "interrupt"} THEN "cl_close" ELSE "exited"

\* run, lines 380-385: whatever leaves the try block, a return or any
\* exception, enters the finally clause, which calls cleanup.
LeaveTry(e) == "cl_close"

\* An exception e raised inside self.cmd(): it is not one of the two the
\* except clause names, so it stays pending while cleanup runs.
Raise(e) ==
    /\ pc' = LeaveTry(e)
    /\ exc' = e
    /\ UNCHANGED << ret, status, exitCode >>

\* Line 381: status = 0 if self.cmd() else 1, for the value r that cmd returned.
StatusOf(r) == IF r = "True" THEN 0 ELSE 1

Return(r) ==
    /\ pc' = LeaveTry("none")
    /\ ret' = r
    /\ status' = StatusOf(r)
    /\ UNCHANGED << exc, exitCode >>

Goto(l) ==
    /\ pc' = l
    /\ UNCHANGED ctlVars

(***************************************************************************)
(* parse_args and setup.                                                   *)
(***************************************************************************)
\* Lines 141-148.  With a power pin the polarity is read from GPIO.
ParseArgs ==
    /\ pc = "parse_args"
    /\ IF cfg.pwrpin # 0 /\ ~cfg.gpioBound
         THEN /\ pc' = "exited"
              /\ exc' = "NameError"
              /\ exitCode' = 1
              /\ UNCHANGED << ret, status >>
         ELSE Goto("setup")
    /\ UNCHANGED << subVars, cfg, ser, powerVars, regVars, sendVars, atFailed, step, recvVars,
                    monVars, sigVars >>

\* Lines 159-170: the port is opened (or serial.Serial raises) and flushed.
Setup ==
    /\ pc = "setup"
    /\ \E opened \in BOOLEAN :
         IF opened
           THEN /\ ser' = "open"
                /\ Goto(IF cfg.pwrpin # 0 THEN "setup_gpio" ELSE "try")
           ELSE /\ ser' = ser
                /\ pc' = "exited"
                /\ exc' = "SerialException"
                /\ exitCode' = 1
                /\ UNCHANGED << ret, status >>
    /\ UNCHANGED << subVars, cfg, powerVars, regVars, sendVars, atFailed, step, recvVars,
                    monVars, sigVars >>

\* Lines 172-179: the pin is made an output and driven inactive.
SetupGpio ==
    /\ pc = "setup_gpio"
    /\ pin' = "inactive"
    /\ Goto("try")
    /\ UNCHANGED << subVars, cfg, ser, flushed, powered, pinWrites, powerWaits, powerChanges,
                    powerUpCalled, regVars, sendVars, atFailed, step, recvVars,
                    monVars, sigVars >>

\* Line 381 calls self.cmd, set by parse_args (lines 116-139).
FirstStep(c) ==
    CASE c = "send" -> "send_read"
      [] c = "monitor" -> "mon_read"
      [] c = "at" -> "at_cmd"
      [] OTHER -> "pu_start"

Dispatch ==
    /\ pc = "try"
    /\ Goto(FirstStep(cfg.cmd))
    /\ UNCHANGED << subVars, cfg, ser, powerVars, regVars, sendVars, atFailed, step, recvVars,
                    monVars, sigVars >>

(***************************************************************************)
(* The power sequencer: power_up (lines 58-73), power_down (lines 75-88).  *)
(***************************************************************************)
\* Where the operation goes on after its call of power_up.
AfterPowerUp(c) ==
    CASE c = "send" -> "cc_test"
      [] c = "recv" -> "rx_cmgf"
      [] c = "clear" -> "clr_cmgd"
      [] OTHER -> "info_q"

\* Lines 59-61: power_up returns at once when no power pin is set.
PowerUpSkips == cfg.pwrpin = 0

\* AfterActive without the pulse: the pin is left active in both modes.
AfterActiveNoRelease(u) == "pu_mark"

\* Lines 63-70, after the pin was driven active: with a pulse duration u the
\* call sleeps and then drives the pin inactive, without one it goes on.
AfterActive(u) == IF u # 0 THEN "pu_hold" ELSE "pu_mark"

\* Lines 58-70: without a pin nothing is done; with one the pin is driven
\* active, and with a pulse duration the call then sleeps.
PowerUpStart ==
    /\ pc = "pu_start"
    /\ powerUpCalled' = TRUE
    /\ IF PowerUpSkips
         THEN /\ Goto(AfterPowerUp(cfg.cmd))
              /\ UNCHANGED << pin, pinWrites >>
         ELSE IF ~cfg.gpioBound
                THEN /\ Raise("NameError")
                     /\ UNCHANGED << pin, pinWrites >>
                ELSE /\ pin' = "active"
                     /\ pinWrites' = pinWrites + 1
                     /\ Goto(AfterActive(cfg.pwrup))
    /\ UNCHANGED << subVars, cfg, ser, flushed, powered, powerWaits, powerChanges, regVars, sendVars,
                    atFailed, step, recvVars, monVars, sigVars >>

\* Lines 66-67: the pulse is over, the pin is driven inactive.
PowerUpRelease ==
    /\ pc = "pu_hold"
    /\ pin' = "inactive"
    /\ pinWrites' = pinWrites + 1
    /\ Goto("pu_mark")
    /\ UNCHANGED << subVars, cfg, ser, flushed, powered, powerWaits, powerChanges, powerUpCalled,
                    regVars, sendVars, atFailed, step, recvVars, monVars, sigVars >>

\* Line 71: the state is marked powered.
PowerUpMark ==
    /\ pc = "pu_mark"
    /\ powered' = TRUE
    /\ powerChanges' = IF powered THEN powerChanges ELSE powerChanges + 1
    /\ Goto("pu_flush")
    /\ UNCHANGED << subVars, cfg, ser, flushed, pin, pinWrites, powerWaits, powerUpCalled, regVars,
                    sendVars, atFailed, step, recvVars, monVars, sigVars >>

\* Lines 72-73: the transport's input and output buffers are flushed.
PowerUpFlush ==
    /\ pc = "pu_flush"
    /\ flushed' = TRUE
    /\ Goto(AfterPowerUp(cfg.cmd))
    /\ UNCHANGED << subVars, cfg, ser, pin, powered, pinWrites, powerWaits, powerChanges,
                    powerUpCalled, regVars, sendVars, atFailed, step, recvVars, monVars,
                    sigVars >>

\* PowerDownSkips with the guard left out.
PowerDownNeverSkips == FALSE

\* Lines 76-78: power_down returns at once unless self.powered is set.
PowerDownSkips == ~powered

\* Lines 75-88, up to the first sleep.  self.powered is not assigned.
PowerDownStart ==
    /\ pc = "pd_start"
    /\ IF PowerDownSkips
         THEN /\ Goto("cl_end")
              /\ UNCHANGED << pin, pinWrites >>
         ELSE IF ~cfg.gpioBound
                THEN /\ pc' = "exited"
                     /\ exc' = "NameError"
                     /\ exitCode' = 1
                     /\ UNCHANGED << ret, status, pin, pinWrites >>
                ELSE IF cfg.pwrdown # 0
                       THEN /\ pin' = "active"
                            /\ pinWrites' = pinWrites + 1
                            /\ Goto("pd_hold")
                       ELSE /\ pin' = "inactive"
                            /\ pinWrites' = pinWrites + 1
                            /\ Goto("cl_end")
    /\ UNCHANGED << subVars, cfg, ser, flushed, powered, powerWaits, powerChanges, powerUpCalled,
                    regVars, sendVars, atFailed, step, recvVars, monVars, sigVars >>

\* Lines 83-84: the pulse has been held, the pin is driven inactive.
PowerDownRelease ==
    /\ pc = "pd_hold"
    /\ powerWaits' = powerWaits + 1
    /\ pin' = "inactive"
    /\ pinWrites' = pinWrites + 1
    /\ Goto("pd_settle")
    /\ UNCHANGED << subVars, cfg, ser, flushed, powered, powerChanges, powerUpCalled, regVars,
                    sendVars, atFailed, step, recvVars, monVars, sigVars >>

\* Line 85: the settle period.
PowerDownSettle ==
    /\ pc = "pd_settle"
    /\ powerWaits' = powerWaits + 1
    /\ Goto("cl_end")
    /\ UNCHANGED << subVars, cfg, ser, flushed, pin, powered, pinWrites, powerChanges, powerUpCalled,
                    regVars, sendVars, atFailed, step, recvVars, monVars, sigVars >>

(***************************************************************************)
(* cleanup (lines 367-373) and the end of run (lines 384-386).             *)
(***************************************************************************)
\* Lines 369-370.
CleanupClose ==
    /\ pc = "cl_close"
    /\ ser' = IF ser # "none" THEN "closed" ELSE ser
    /\ Goto("pd_start")
    /\ UNCHANGED << subVars, cfg, powerVars, regVars, sendVars, atFailed, step, recvVars,
                    monVars, sigVars >>

\* Lines 372-373 and 386.  'GPIO' is never a key of sys.modules (the driver
\* is imported as RPi.GPIO), so GPIO.cleanup is not called.  A pending
\* exception then leaves run and ends the process with status 1; otherwise
\* run returns status (lines 386, 392), which the entry point exits with.
CleanupEnd ==
    /\ pc = "cl_end"
    /\ pc' = "exited"
    /\ exitCode' = IF exc = "none" THEN status ELSE 1
    /\ UNCHANGED << exc, ret, status >>
    /\ UNCHANGED << subVars, cfg, ser, powerVars, regVars, sendVars, atFailed, step, recvVars,
                    monVars, sigVars >>

(***************************************************************************)
(* An interrupt: SIGTERM makes _handle_exit (lines 47-48) raise SystemExit *)
(* at the point the program is at, Ctrl-C raises KeyboardInterrupt.        *)
(* Inside the try block the except clause of run (lines 382-383) catches   *)
(* it and the finally clause runs cleanup; before the try block, and       *)
(* inside cleanup itself, nothing catches it.                              *)
(***************************************************************************)
Interrupt ==
    /\ pc \in PreTry \cup InTry \cup InCleanup
    /\ IF pc \in InTry
         THEN /\ pc' = LeaveTry("interrupt")
              /\ interrupted' = TRUE
              /\ UNCHANGED << exc, ret, status, exitCode, cleanupCut >>
         ELSE /\ pc' = "exited"
              /\ \E k \in {"SystemExit", "KeyboardInterrupt"} :
                   /\ exc' = k
                   /\ exitCode' \in (IF k = "SystemExit" THEN {0} ELSE {1, 130})
              /\ cleanupCut' = (pc \in InCleanup)
              /\ UNCHANGED << ret, status, interrupted >>
    /\ UNCHANGED << subVars, cfg, ser, powerVars, regVars, sendVars, atFailed, step, recvVars,
                    monVars >>

(***************************************************************************)
(* send (lines 202-225) and check_connection (lines 313-324).              *)
(***************************************************************************)
\* Lines 150-157, 203-204: read_message raises ValueError on empty input.
SendRead ==
    /\ pc = "send_read"
    /\ IF cfg.message = "empty" THEN Raise("ValueError") ELSE Goto("pu_start")
    /\ UNCHANGED << subVars, cfg, ser, powerVars, regVars, sendVars, atFailed, step, recvVars,
                    monVars, sigVars >>

\* DeadlinePassed with the loop test written <= instead of <.
DeadlinePassedLate == ~(clock <= cfg.wait)

\* Line 316, the loop test, and line 324 once it fails.
DeadlinePassed == ~(clock < cfg.wait)

CheckConnectionTest ==
    /\ pc = "cc_test"
    /\ IF DeadlinePassed
         THEN /\ ccDeadline' = TRUE
              /\ Raise("RuntimeError")
         ELSE /\ ccDeadline' = ccDeadline
              /\ Goto("cc_poll")
    /\ UNCHANGED << subVars, cfg, ser, powerVars, clock, polls, lastPoll, regSeen,
                    sendVars, atFailed, step, recvVars, monVars, sigVars >>

\* The status codes of the +CREG: lines of one response, in order.
CregResponses == {<< >>} \cup { << a >> : a \in StatusDigits }
                    \cup { << a, b >> : a \in StatusDigits, b \in {"0", "1"} }

\* Lines 318-319: what re.search finds in the response of an exchange that
\* succeeded: the status code of its first +CREG: line, "none" without one.
\* The response of a failed exchange is not searched.
Found(o, sts) == IF o = "ok" /\ sts # << >> THEN sts[1] ELSE "none"

\* Registered with only the home-network status accepted.
RegisteredHomeOnly(o, sts) == o = "ok" /\ sts # << >> /\ sts[1] = "1"

\* Lines 318-320: the exchange succeeded, re.search found a +CREG: line (the
\* first of the response) and its status is one of '1', '5', '6', '7'.
Registered(o, sts) == o = "ok" /\ sts # << >> /\ sts[1] \in AcceptedStatus

\* Lines 317-322: one poll.  The exchange reads for at most its one-second
\* timeout; on an accepted status check_connection returns at once.
CheckConnectionPoll ==
    /\ pc = "cc_poll"
    /\ \E o \in AtOutcomes, sts \in CregResponses, dt \in {0, 1} :
         /\ polls' = polls + 1
         /\ lastPoll' = IF o = "raise" THEN lastPoll ELSE [ok |-> (o = "ok"),
                                                            status |-> Found(o, sts)]
         /\ clock' = clock + dt
         /\ IF o = "raise"
              THEN /\ Raise("IOError")
                   /\ regSeen' = regSeen
              ELSE IF Registered(o, sts)
                     THEN /\ regSeen' = TRUE
                          /\ Goto("send_cmgf")
                     ELSE /\ regSeen' = regSeen
                          /\ Goto("cc_sleep")
    /\ UNCHANGED << subVars, cfg, ser, powerVars, ccDeadline, sendVars, atFailed, step,
                    recvVars, monVars, sigVars >>

\* Line 323: time.sleep(1) returns after one second or later.
CheckConnectionSleep ==
    /\ pc = "cc_sleep"
    /\ \E dt \in {1, 2} : clock' = clock + dt
    /\ Goto("cc_test")
    /\ UNCHANGED << subVars, cfg, ser, powerVars, polls, lastPoll, regSeen, ccDeadline,
                    sendVars, atFailed, step, recvVars, monVars, sigVars >>

\* Line 210: AT+CMGF=0, its result is not looked at; then the loop of line
\* 212 starts on the first pdu.
SendCmgf ==
    /\ pc = "send_cmgf"
    /\ \E o \in AtOutcomes :
         IF o = "raise"
           THEN /\ Raise("IOError")
                /\ UNCHANGED << chunk, atFailed >>
           ELSE /\ atFailed' = (atFailed \/ o = "fail")
                /\ chunk' = 1
                /\ Goto("send_prompt")
    /\ UNCHANGED << subVars, cfg, ser, powerVars, regVars, cmgsSent, pduSent, acked,
                    promptFailed, ackFailed, step, recvVars, monVars, sigVars >>

\* The for statement of line 212 after the body ran for pdu number i
\* without returning: the next pdu, or lines 223-225 after the last.
LoopNext(i) == IF i < cfg.nChunks THEN "next" ELSE "return_true"

\* Lines 213-214: what follows the send-prompt exchange of pdu i.
AfterPrompt(o, i) == IF o = "ok" THEN "body" ELSE LoopNext(i)

\* Lines 218-222: what follows the final-acknowledgment exchange of pdu i.
AfterAck(o, i) == IF o = "ok" THEN LoopNext(i) ELSE "return_false"

SendGo(t) ==
    CASE t = "body" -> Goto("send_body") /\ chunk' = chunk
      [] t = "next" -> Goto("send_prompt") /\ chunk' = chunk + 1
      [] t = "return_true" -> Return("True") /\ chunk' = chunk
      [] t = "return_false" -> Return("False") /\ chunk' = chunk

\* Lines 213-214: AT+CMGS=<length> is written and '>' awaited.
SendPrompt ==
    /\ pc = "send_prompt"
    /\ cmgsSent' = cmgsSent \cup {chunk}
    /\ \E o \in AtOutcomes :
         IF o = "raise"
           THEN /\ Raise("IOError")
                /\ UNCHANGED << chunk, promptFailed, atFailed >>
           ELSE /\ promptFailed' = IF o = "fail" THEN promptFailed \cup {chunk}
                                                 ELSE promptFailed
                /\ atFailed' = (atFailed \/ o = "fail")
                /\ SendGo(AfterPrompt(o, chunk))
    /\ UNCHANGED << subVars, cfg, ser, powerVars, regVars, pduSent, acked, ackFailed, step,
                    recvVars, monVars, sigVars >>

\* Lines 216-222: the pdu and the submit byte are written, OK is awaited.
SendBody ==
    /\ pc = "send_body"
    /\ pduSent' = pduSent \cup {chunk}
    /\ \E o \in AtOutcomes :
         IF o = "raise"
           THEN /\ Raise("IOError")
                /\ UNCHANGED << chunk, acked, ackFailed, atFailed >>
           ELSE /\ acked' = IF o = "ok" THEN acked \cup {chunk} ELSE acked
                /\ ackFailed' = IF o = "fail" THEN ackFailed \cup {chunk} ELSE ackFailed
                /\ atFailed' = (atFailed \/ o = "fail")
                /\ SendGo(AfterAck(o, chunk))
    /\ UNCHANGED << subVars, cfg, ser, powerVars, regVars, cmgsSent, promptFailed, step,
                    recvVars, monVars, sigVars >>

(***************************************************************************)
(* receive (lines 267-304).  The listings are kept to what this            *)
(* specification needs: whether each exchange succeeded and how many slots *)
(* the two lists name for deletion.                                        *)
(***************************************************************************)
\* Line 271: AT+CMGF=0, result not looked at.
ReceiveCmgf ==
    /\ pc = "rx_cmgf"
    /\ \E o \in AtOutcomes :
         IF o = "raise"
           THEN Raise("IOError") /\ atFailed' = atFailed
           ELSE Goto("rx_cpms") /\ atFailed' = (atFailed \/ o = "fail")
    /\ UNCHANGED << subVars, cfg, ser, powerVars, regVars, sendVars, step, recvVars, monVars,
                    sigVars >>

\* Line 272: AT+CPMS, result not looked at.
ReceiveCpms ==
    /\ pc = "rx_cpms"
    /\ \E o \in AtOutcomes :
         IF o = "raise"
           THEN Raise("IOError") /\ atFailed' = atFailed
           ELSE Goto("rx_list_read") /\ atFailed' = (atFailed \/ o = "fail")
    /\ UNCHANGED << subVars, cfg, ser, powerVars, regVars, sendVars, step, recvVars, monVars,
                    sigVars >>

\* Lines 277-284: the already-read messages; old holds the number of them
\* older than maxage.  SmsDeliver (line 234) may raise on an entry.
ReceiveListRead ==
    /\ pc = "rx_list_read"
    /\ \E o \in AtOutcomes, old \in 0..MaxSlots :
         IF o = "raise"
           THEN /\ Raise("IOError")
                /\ UNCHANGED << delLeft, atFailed >>
           ELSE /\ delLeft' = IF o = "ok" THEN old ELSE 0
                /\ atFailed' = (atFailed \/ o = "fail")
                /\ Goto("rx_list_unread")
    /\ UNCHANGED << subVars, cfg, ser, powerVars, regVars, sendVars, step, deletes, printed,
                    monVars, sigVars >>

\* Lines 296-300: the delete commands receive will write after printing, for
\* n slots named by read_idx + frag_read_idx.
DeleteCount(n) ==
    IF cfg.policy = "deleteall" THEN 1
    ELSE IF cfg.policy = "preserve" THEN 0
    ELSE n

\* Lines 286-295 and 302-304: the unread messages; new holds the number of
\* slots they add.  On success the array is printed.
ReceiveListUnread ==
    /\ pc = "rx_list_unread"
    /\ \E o \in AtOutcomes, new \in 0..MaxSlots :
         CASE o = "raise" ->
                /\ Raise("IOError")
                /\ UNCHANGED << delLeft, printed, atFailed >>
           [] o = "fail" ->
                /\ Return("False")
                /\ atFailed' = TRUE
                /\ UNCHANGED << delLeft, printed >>
           [] o = "ok" ->
                /\ printed' = TRUE
                /\ delLeft' = DeleteCount(delLeft + new)
                /\ atFailed' = atFailed
                /\ IF DeleteCount(delLeft + new) = 0
                     THEN Return("True")
                     ELSE Goto("rx_del")
    /\ UNCHANGED << subVars, cfg, ser, powerVars, regVars, sendVars, step, deletes, monVars,
                    sigVars >>

\* Lines 297 and 300: one AT+CMGD, result not looked at; line 301 after the last.
ReceiveDelete ==
    /\ pc = "rx_del"
    /\ \E o \in AtOutcomes :
         IF o = "raise"
           THEN /\ Raise("IOError")
                /\ UNCHANGED << delLeft, deletes, atFailed >>
           ELSE /\ deletes' = deletes + 1
                /\ delLeft' = delLeft - 1
                /\ atFailed' = (atFailed \/ o = "fail")
                /\ IF delLeft = 1 THEN Return("True") ELSE Goto("rx_del")
    /\ UNCHANGED << subVars, cfg, ser, powerVars, regVars, sendVars, step, printed, monVars,
                    sigVars >>

(***************************************************************************)
(* clear (306-311), modem_info (326-342), at (344-348), monitor (350-365). *)
(***************************************************************************)
\* Lines 310-311: clear returns the result of its one exchange.
ClearResult(o) == IF o = "ok" THEN "True" ELSE "False"

Clear ==
    /\ pc = "clr_cmgd"
    /\ \E o \in AtOutcomes :
         IF o = "raise"
           THEN Raise("IOError") /\ atFailed' = atFailed
           ELSE Return(ClearResult(o)) /\ atFailed' = (atFailed \/ o = "fail")
    /\ UNCHANGED << subVars, cfg, ser, powerVars, regVars, sendVars, step, recvVars, monVars,
                    sigVars >>

\* modem_info has no return statement: after the last query it returns None.
InfoResult == "None"

\* Lines 330-342: one of the six queries; each response is printed, no
\* result is looked at.
ModemInfo ==
    /\ pc = "info_q"
    /\ \E o \in AtOutcomes :
         IF o = "raise"
           THEN /\ Raise("IOError")
                /\ UNCHANGED << step, atFailed >>
           ELSE /\ step' = step + 1
                /\ atFailed' = (atFailed \/ o = "fail")
                /\ IF step + 1 = InfoQueries THEN Return(InfoResult) ELSE Goto("info_q")
    /\ UNCHANGED << subVars, cfg, ser, powerVars, regVars, sendVars, recvVars, monVars,
                    sigVars >>

\* at has no return statement either.
AtResult == "None"

\* Lines 346-348: the raw command; power_up is not called.
At ==
    /\ pc = "at_cmd"
    /\ \E o \in AtOutcomes :
         IF o = "raise"
           THEN Raise("IOError") /\ atFailed' = atFailed
           ELSE Return(AtResult) /\ atFailed' = (atFailed \/ o = "fail")
    /\ UNCHANGED << subVars, cfg, ser, powerVars, regVars, sendVars, step, recvVars, monVars,
                    sigVars >>

\* The lines readline can hand over: one with the +CMTI: token, one
\* without, and one whose bytes are not UTF-8.
MonitorLines == {"cmti", "other", "undecodable"}

\* Line 359: the hook is run for a +CMTI: line when --command was given.
HookRuns(got) == got = "cmti" /\ cfg.hook

\* Lines 353-364: one turn of the loop.  readline may raise; the line is
\* decoded, which raises on bytes that are not UTF-8 (line 354); for a
\* +CMTI: line the hook, if given, is run, its exit status is only logged,
\* and its output is decoded for the log, which raises on output that is
\* not UTF-8 (lines 363-364).  power_up is not called.
Monitor ==
    /\ pc = "mon_read"
    /\ monLines < MaxLines
    /\ \/ /\ Raise("IOError")
          /\ UNCHANGED monVars
       \/ \E got \in MonitorLines, code \in {0, 1}, out \in {"text", "binary"} :
            /\ monLines' = monLines + 1
            /\ lastLine' = got
            /\ hookRuns' = IF HookRuns(got) THEN hookRuns + 1 ELSE hookRuns
            /\ hookStatus' = IF HookRuns(got) THEN code ELSE hookStatus
            /\ IF got = "undecodable" \/ (HookRuns(got) /\ out = "binary")
                 THEN Raise("UnicodeDecodeError")
                 ELSE Goto("mon_read")
    /\ UNCHANGED << subVars, cfg, ser, powerVars, regVars, sendVars, atFailed, step, recvVars,
                    sigVars >>

(***************************************************************************)
(* The session.                                                            *)
(***************************************************************************)
Next ==
    \/ ParseArgs
    \/ Setup
    \/ SetupGpio
    \/ Dispatch
    \/ PowerUpStart
    \/ PowerUpRelease
    \/ PowerUpMark
    \/ PowerUpFlush
    \/ SendRead
    \/ CheckConnectionTest
    \/ CheckConnectionPoll
    \/ CheckConnectionSleep
    \/ SendCmgf
    \/ SendPrompt
    \/ SendBody
    \/ ReceiveCmgf
    \/ ReceiveCpms
    \/ ReceiveListRead
    \/ ReceiveListUnread
    \/ ReceiveDelete
    \/ Clear
    \/ ModemInfo
    \/ At
    \/ Monitor
    \/ CleanupClose
    \/ PowerDownStart
    \/ PowerDownRelease
    \/ PowerDownSettle
    \/ CleanupEnd
    \/ Interrupt

Spec == Init /\ [][Next]_vars

\* The steps the program takes by itself.  It is one sequential thread, and
\* each of these steps is a call that ends by itself: an exchange ends on
\* its terminator or its timeout (line 186), a sleep ends.  Not among them
\* are Interrupt and Monitor, whose readline (line 354) waits without a
\* timeout for a line that may never come.
Progress ==
    \/ ParseArgs
    \/ Setup
    \/ SetupGpio
    \/ Dispatch
    \/ PowerUpStart
    \/ PowerUpRelease
    \/ PowerUpMark
    \/ PowerUpFlush
    \/ SendRead
    \/ CheckConnectionTest
    \/ CheckConnectionPoll
    \/ CheckConnectionSleep
    \/ SendCmgf
    \/ SendPrompt
    \/ SendBody
    \/ ReceiveCmgf
    \/ ReceiveCpms
    \/ ReceiveListRead
    \/ ReceiveListUnread
    \/ ReceiveDelete
    \/ Clear
    \/ ModemInfo
    \/ At
    \/ CleanupClose
    \/ PowerDownStart
    \/ PowerDownRelease
    \/ PowerDownSettle
    \/ CleanupEnd

FairSpec == Spec /\ WF_vars(Progress)

(***************************************************************************)
(* Claims about the session, checked under Spec.                           *)
(***************************************************************************)
Chunks == 1..cfg.nChunks

\* C1: send returns True only if every chunk was acknowledged: each chunk's
\* send-prompt exchange succeeded and then its final-acknowledgment exchange
\* succeeded.
C1_SuccessOnlyIfAllAcked ==
    (cfg.cmd = "send" /\ ret = "True") => (acked = Chunks /\ promptFailed = {})

\* C2: once a chunk has failed its send-prompt or its final-acknowledgment
\* exchange, no AT+CMGS and no pdu bytes are written for any later chunk and
\* send does not return True.
C2_AbortOnFirstFailure ==
    \A i \in promptFailed \cup ackFailed :
        /\ \A j \in cmgsSent \cup pduSent : j <= i
        /\ ret # "True"

\* How the operation was left: by a return, by an exception raised inside
\* it, or by an interrupt.
LeftTry ==
    \/ ret # "none"
    \/ exc \in {"RuntimeError", "IOError", "ValueError", "UnicodeDecodeError"}
    \/ interrupted

\* What a finished power-down sequence leaves behind when the modem was
\* powered: the pin inactive after the pulse with its settle wait, or after
\* the one write that drives it inactive.
PoweredDown ==
    /\ pin = "inactive"
    /\ pinWrites = (IF cfg.pwrup # 0 THEN 2 ELSE 1) + (IF cfg.pwrdown # 0 THEN 2 ELSE 1)
    /\ powerWaits = (IF cfg.pwrdown # 0 THEN 2 ELSE 0)

\* C3: every way of leaving the operation (a return, a propagated failure,
\* an interrupt at any point of it) enters cleanup; cleanup, run to its end,
\* has closed the transport and, when the state was Powered, performed the
\* power-down sequence; and cleanup, once entered, does come to its end
\* unless an interrupt cuts it.
C3_CleanupOnEveryExit ==
    /\ [][(pc \in InTry /\ pc' \notin InTry) => pc' = "cl_close"]_vars
    /\ []((pc \in {"cl_end", "exited"} /\ LeftTry /\ ~cleanupCut) =>
            (ser = "closed" /\ (powered => PoweredDown)))
    /\ (pc = "cl_close") ~> (pc = "exited" /\ (cleanupCut \/ ser = "closed"))

\* C3's case: the registration deadline error left send, cleanup ran.
C3_Witness ==
    /\ pc = "exited"
    /\ exc = "RuntimeError"
    /\ ser = "closed"
    /\ ~cleanupCut

\* C4: without a successful poll carrying an accepted status code,
\* check_connection polls at most once per second of the wait and then
\* raises the network error, which leaves send (no return value) and, after
\* cleanup, run; no AT+CMGS and no pdu bytes are written in the session;
\* and check_connection, once entered, is left: by an accepted poll or into
\* cleanup.
C4_NoRegistrationNoSend ==
    /\ [](polls <= cfg.wait)
    /\ [](~regSeen => (cmgsSent = {} /\ pduSent = {}))
    /\ [](ccDeadline =>
            /\ ~regSeen
            /\ pc \in InCleanup \cup {"exited"}
            /\ ret = "none"
            /\ ~cleanupCut => exc = "RuntimeError"
            /\ (pc = "exited" /\ ~cleanupCut) => exitCode = 1)
    /\ (pc = "cc_test") ~> (regSeen \/ pc \in InCleanup \cup {"exited"})

\* C4's case: every poll of a two-second wait was refused, the session ended.
C4_Witness ==
    /\ pc = "exited"
    /\ ccDeadline
    /\ polls >= 2
    /\ exc = "RuntimeError"

\* C7: a session whose operation returned has exit status 0 when the
\* operation completed with every exchange successful, and 1 when the
\* operation reported failure.
C7_ExitStatus ==
    (pc = "exited" /\ ret # "none" /\ exc = "none" /\ ~interrupted) =>
        /\ ~atFailed => exitCode = 0
        /\ ret = "False" => exitCode = 1

\* C9: in a session that was neither interrupted nor refused the port, the
\* power state has changed exactly twice by the end when a power pin is
\* configured, and never when none is.
C9_PowerCycle ==
    (/\ pc = "exited"
     /\ exc \notin {"SystemExit", "KeyboardInterrupt", "SerialException"}
     /\ ~interrupted) =>
        powerChanges = (IF cfg.pwrpin # 0 THEN 2 ELSE 0)

\* C10: when power_up was never called or no power pin is configured, a call
\* of power_down returns without driving the pin, without waiting and
\* without changing the power state; the state it leaves is the state it
\* found, so this holds for every further call too.
C10_PowerDownNoOp ==
    [][(/\ pc = "pd_start"
        /\ cfg.pwrpin = 0 \/ ~powerUpCalled
        /\ ~cleanupCut')
         => /\ pc' = "cl_end"
            /\ pin' = pin
            /\ pinWrites' = pinWrites
            /\ powerWaits' = powerWaits
            /\ powered' = powered]_vars

\* C10's case: power_down has returned in a session without a power pin
\* whose operation had called power_up.
C10_Witness ==
    /\ pc = "cl_end"
    /\ cfg.pwrpin = 0
    /\ powerUpCalled
    /\ pinWrites = 0
    /\ powerWaits = 0

(***************************************************************************)
(* SpecAt: one call of at_command (lines 181-197), byte by byte.  Texts    *)
(* are sequences of characters, what the transport carries is sequences of *)
(* bytes; str.encode and bytes.decode go between the two.                  *)
(***************************************************************************)
MaxRx == 4

\* The bytes the modem may emit: 'K', 'O', '>' and a byte that is not UTF-8.
ModemBytes == {75, 79, 62, 255}

\* The terminators the program passes as back: "OK", ">" and, through the
\* at command's second argument, any text, the empty one included.
Terminators == { << "O", "K" >>, << ">" >>, << >> }

EncodeChar(c) == CASE c = "K" -> 75 [] c = "O" -> 79 [] c = ">" -> 62

\* str.encode(), lines 185 and 188.
Encode(text) == [i \in 1..Len(text) |-> EncodeChar(text[i])]

\* bytes.decode() raises UnicodeDecodeError on a byte that is not UTF-8.
Decodable(bytes) == \A i \in 1..Len(bytes) : bytes[i] < 128

DecodeByte(b) == CASE b = 75 -> "K" [] b = 79 -> "O" [] b = 62 -> ">"

\* bytes.decode(), line 189.
Decode(bytes) == [i \in 1..Len(bytes) |-> DecodeByte(bytes[i])]

\* The slice s[-n:]: the last n elements, and all of s when n is 0 or more
\* than its length.
LastN(s, n) ==
    IF n = 0 \/ n >= Len(s) THEN s ELSE SubSeq(s, Len(s) - n + 1, Len(s))

\* read_until's test after each byte: line[-lenterm:] == expected.
TerminatorRead(acc, expected) == LastN(acc, Len(expected)) = expected

\* t in s, for texts.
Occurs(t, s) == \E i \in 0..(Len(s) - Len(t)) : SubSeq(s, i + 1, i + Len(t)) = t

\* Success with the response compared to the terminator instead of searched.
SuccessIfEqual(resp, expected) == resp = expected

\* Lines 190-197: the result at_command returns for the decoded response.
Success(resp, expected) == Occurs(expected, resp)

InitAt ==
    /\ cfg \in { c \in Configs : c.cmd = "at" /\ c.pwrpin = 0 }
    /\ pc = "off"
    /\ SessZero
    /\ atPc = "reset"
    /\ command = "command"
    /\ back \in Terminators
    /\ steps = << >>
    /\ rx = << >>
    /\ tx = << >>
    /\ line = << >>
    /\ taken = << >>
    /\ timedOut = FALSE
    /\ result = FALSE
    /\ response = << >>
    /\ modemLeft = MaxRx
    /\ fpc = "off"
    /\ FragZero
    /\ rpc = "off"
    /\ RcvZero
    /\ spc = "off"
    /\ AckZero

\* The modem puts one more byte on the line, at any time.
ModemEmits ==
    /\ atPc \in {"reset", "esc", "cmd", "timeout", "read"}
    /\ modemLeft > 0
    /\ \E b \in ModemBytes : rx' = Append(rx, b)
    /\ modemLeft' = modemLeft - 1
    /\ UNCHANGED << atOuter, command, steps, atPc, back, tx, line, taken, timedOut,
                    result, response >>

\* Line 183: reset_input_buffer discards what has not been read.
AtResetInput ==
    /\ atPc = "reset"
    /\ rx' = << >>
    /\ steps' = Append(steps, "discard")
    /\ atPc' = "esc"
    /\ UNCHANGED << atOuter, command, back, tx, line, taken, timedOut, result,
                    response, modemLeft >>

\* Line 184: the cancel byte, ESC.
AtWriteEsc ==
    /\ atPc = "esc"
    /\ tx' = Append(tx, "ESC")
    /\ steps' = Append(steps, "cancel")
    /\ atPc' = "cmd"
    /\ UNCHANGED << atOuter, command, back, rx, line, taken, timedOut, result,
                    response, modemLeft >>

\* CommandBytes with the command written a second time, as a retry would.
CommandBytesRetried(c) == << c, "CR", "LF", c, "CR", "LF" >>

\* Line 185: what (command+'\r\n').encode() puts on the line.
CommandBytes(c) == << c, "CR", "LF" >>

\* Line 185: the command, then CR and LF.
AtWriteCommand ==
    /\ atPc = "cmd"
    /\ tx' = tx \o CommandBytes(command)
    /\ steps' = Append(steps, "command")
    /\ atPc' = "timeout"
    /\ UNCHANGED << atOuter, command, back, rx, line, taken, timedOut, result,
                    response, modemLeft >>

\* Lines 186-187: the read timeout is set, the read starts with nothing.
AtSetTimeout ==
    /\ atPc = "timeout"
    /\ line' = << >>
    /\ steps' = Append(steps, "timeout")
    /\ atPc' = "read"
    /\ UNCHANGED << atOuter, command, back, rx, tx, taken, timedOut, result,
                    response, modemLeft >>

\* Line 188, read_until: one byte is read and appended; the read ends when
\* the accumulator ends with the encoded terminator.
AtReadByte ==
    /\ atPc = "read"
    /\ rx # << >>
    /\ line' = Append(line, Head(rx))
    /\ taken' = Append(taken, Head(rx))
    /\ rx' = Tail(rx)
    /\ atPc' = IF TerminatorRead(Append(line, Head(rx)), Encode(back))
                 THEN "decode" ELSE "read"
    /\ UNCHANGED << atOuter, command, steps, back, tx, timedOut, result, response,
                    modemLeft >>

\* Line 188, read_until: the timeout elapses, the read ends with what it has.
AtReadTimeout ==
    /\ atPc = "read"
    /\ timedOut' = TRUE
    /\ atPc' = "decode"
    /\ UNCHANGED << atOuter, command, steps, back, rx, tx, line, taken, result,
                    response, modemLeft >>

\* Lines 189-197: the bytes are decoded (or decode raises) and the pair
\* (result, response) is returned.
AtClassify ==
    /\ atPc = "decode"
    /\ IF Decodable(line)
         THEN /\ response' = Decode(line)
              /\ result' = Success(Decode(line), back)
              /\ atPc' = "returned"
         ELSE /\ atPc' = "raised"
              /\ UNCHANGED << result, response >>
    /\ UNCHANGED << atOuter, command, steps, back, rx, tx, line, taken, timedOut,
                    modemLeft >>

NextAt ==
    \/ ModemEmits
    \/ AtResetInput
    \/ AtWriteEsc
    \/ AtWriteCommand
    \/ AtSetTimeout
    \/ AtReadByte
    \/ AtReadTimeout
    \/ AtClassify

SpecAt == InitAt /\ [][NextAt]_vars

\* C8: when at_command returns, success is true exactly when the terminator
\* occurs in the bytes the read took from the transport, which for a
\* non-empty terminator is exactly when the read did not end on its timeout;
\* and the response is the text of all those bytes, ending with the
\* terminator on success.
C8_AtResult ==
    atPc = "returned" =>
        /\ result = Occurs(Encode(back), taken)
        /\ back # << >> => (result = ~timedOut)
        /\ response = Decode(taken)
        /\ (result /\ ~timedOut) => LastN(response, Len(back)) = back

\* C8's case: the terminator arrived after another byte and the exchange
\* returned success with both.
C8_Witness ==
    /\ atPc = "returned"
    /\ result
    /\ back = << "O", "K" >>
    /\ Len(response) = 3

(***************************************************************************)
(* SpecFrag: collect_fragments (lines 241-265) as receive uses it: called  *)
(* once per listed message that carries a ref (lines 284, 290), then once  *)
(* with process=True (line 294).                                           *)
(*                                                                         *)
(* A record is a decoded message: ref, cnt, seq, idx, date, number, text.  *)
(* The message in storage slot k has the one-character text << k >> and    *)
(* the date and number k, so that a reassembled record shows which         *)
(* members it was built from and in what order.  A key that was deleted    *)
(* from a record holds NoKey (ref) or 0 (cnt, seq).                        *)
(***************************************************************************)
MaxMsgs == 3
MaxCnt == 3

Refs == {"r1", "r2"}
NoKey == "deleted"

\* The records SmsDeliver can hand over for the message in storage slot k.
Records(k) ==
    { d \in [ref : Refs, cnt : 1..MaxCnt, seq : 1..MaxCnt, idx : {k}, date : {k},
              number : {k}, text : {<< k >>}] : d.seq <= d.cnt }

InitFrag ==
    /\ cfg \in { c \in Configs : c.cmd = "recv" /\ c.pwrpin = 0 /\ c.policy = "default" }
    /\ pc = "off"
    /\ SessZero
    /\ AtZero
    /\ fpc = "ingest"
    /\ FragZero
    /\ rpc = "off"
    /\ RcvZero
    /\ spc = "off"
    /\ AckZero

\* Lines 243-246: the dict frs after data was appended to the list of its
\* ref, or put there as a new list.
AddFragment(frs, data) ==
    IF data.ref \in DOMAIN frs
      THEN [frs EXCEPT ![data.ref] = Append(@, data)]
      ELSE [r \in DOMAIN frs \cup {data.ref} |->
              IF r = data.ref THEN << data >> ELSE frs[r]]

\* The keys of frs in insertion order, ord, after the same.
AddKey(ord, frs, data) ==
    IF data.ref \in DOMAIN frs THEN ord ELSE Append(ord, data.ref)

\* Lines 242-248: the record is appended to the list of its ref, which is
\* created when the ref is new.
Ingest ==
    /\ fpc = "ingest"
    /\ slot <= MaxMsgs
    /\ \E data \in Records(slot) :
         /\ fragments' = AddFragment(fragments, data)
         /\ order' = AddKey(order, fragments, data)
    /\ slot' = slot + 1
    /\ UNCHANGED << sessVars, atVars, rcvVars, ackVars, fpc, held, messages, read_idx, emitted >>

\* Line 253: the length of a list against the cnt of its first record.
IsComplete(list) == Len(list) = list[1].cnt

\* SortBySeq that leaves the list in ingestion order.
Unsorted(list) == list

\* list with record x put behind the last record whose seq is not above x's.
RECURSIVE InsertBySeq(_, _)
InsertBySeq(list, x) ==
    IF list = << >> THEN << x >>
    ELSE IF list[Len(list)].seq <= x.seq THEN Append(list, x)
    ELSE Append(InsertBySeq(SubSeq(list, 1, Len(list) - 1), x), list[Len(list)])

RECURSIVE SortPrefix(_, _)
SortPrefix(list, n) ==
    IF n = 0 THEN << >> ELSE InsertBySeq(SortPrefix(list, n - 1), list[n])

\* Line 254: list.sort(key=seq), a stable sort.
SortBySeq(list) == SortPrefix(list, Len(list))

\* Lines 255-257: the texts of the records, joined in list order.
RECURSIVE JoinText(_)
JoinText(list) ==
    IF list = << >> THEN << >> ELSE list[1].text \o JoinText(Tail(list))

\* SlotsOf that names the slot of the reassembled record only.
SlotOfLast(list) == << list[Len(list)].idx >>

\* Line 258: the idx of every record, in list order.
SlotsOf(list) == [i \in 1..Len(list) |-> list[i].idx]

\* Lines 259-263: the last record of the sorted list, without its keys
\* ref, cnt and seq and with the joined text.
Reassembled(sorted) ==
    [sorted[Len(sorted)] EXCEPT !.ref = NoKey, !.cnt = 0, !.seq = 0,
                                !.text = JoinText(sorted)]

\* The refs among the first n keys whose list is complete, in key order.
RECURSIVE CompleteRefs(_)
CompleteRefs(n) ==
    IF n = 0 THEN << >>
    ELSE IF IsComplete(fragments[order[n]])
           THEN Append(CompleteRefs(n - 1), order[n])
           ELSE CompleteRefs(n - 1)

RECURSIVE Flatten(_)
Flatten(seqs) == IF seqs = << >> THEN << >> ELSE seqs[1] \o Flatten(Tail(seqs))

\* Lines 250-265: every complete list, in key order, is sorted in place, its
\* slots are collected and its last record is rewritten into the
\* reassembled message; the other lists are not touched.
Process ==
    /\ fpc = "ingest"
    /\ LET done == CompleteRefs(Len(order))
           sorted == [r \in DOMAIN fragments |-> SortBySeq(fragments[r])]
       IN  /\ held' = fragments
           /\ emitted' = done
           /\ messages' = [i \in 1..Len(done) |-> Reassembled(sorted[done[i]])]
           /\ read_idx' = Flatten([i \in 1..Len(done) |-> SlotsOf(sorted[done[i]])])
           /\ fragments' =
                [r \in DOMAIN fragments |->
                   IF IsComplete(fragments[r])
                     THEN [sorted[r] EXCEPT ![Len(sorted[r])] = Reassembled(sorted[r])]
                     ELSE fragments[r]]
    /\ fpc' = "done"
    /\ UNCHANGED << sessVars, atVars, rcvVars, ackVars, order, slot >>

NextFrag ==
    \/ Ingest
    \/ Process

SpecFrag == InitFrag /\ [][NextFrag]_vars

(***************************************************************************)
(* Claims about collect_fragments, checked under SpecFrag.                 *)
(***************************************************************************)
\* The ways of listing the members 1..n of a set in ascending seq order.
Ascending(set) ==
    { p \in [1..Len(set) -> 1..Len(set)] :
        /\ \A i, j \in 1..Len(set) : i # j => p[i] # p[j]
        /\ \A i \in 1..(Len(set) - 1) : set[p[i]].seq <= set[p[i + 1]].seq }

WasEmitted(r) == \E i \in 1..Len(emitted) : emitted[i] = r

\* The count a set declares: the cnt of the member ingested first.
Declared(set) == set[1].cnt

\* C5: of the sets held when processing begins, exactly those whose number
\* of members equals the declared count are reassembled, each into one
\* record; the record's text is the members' texts joined in ascending seq
\* order, whatever order they were ingested in, and its date and number are
\* those of the last member in that order.
C5_Reassembly ==
    fpc = "done" =>
        /\ Len(messages) = Len(emitted)
        /\ \A i, j \in 1..Len(emitted) : i # j => emitted[i] # emitted[j]
        /\ \A r \in DOMAIN held : WasEmitted(r) <=> (Len(held[r]) = Declared(held[r]))
        /\ \A i \in 1..Len(messages) :
             \E p \in Ascending(held[emitted[i]]) :
                LET set == held[emitted[i]]
                    n == Len(set)
                IN  /\ messages[i].text = JoinText([k \in 1..n |-> set[p[k]]])
                    /\ messages[i].date = set[p[n]].date
                    /\ messages[i].number = set[p[n]].number

\* C5's case: three members of one set ingested with seq 3, 1, 2 and cnt 3
\* were joined as member 2, member 3, member 1.
C5_Witness ==
    /\ fpc = "done"
    /\ Len(messages) = 1
    /\ Len(held[emitted[1]]) = 3
    /\ [k \in 1..3 |-> held[emitted[1]][k].seq] = << 3, 1, 2 >>
    /\ messages[1].text = << 2, 3, 1 >>
    /\ messages[1].date = 1

SlotsOfSet(set) == { set[k].idx : k \in 1..Len(set) }

Reported == { read_idx[i] : i \in 1..Len(read_idx) }

\* C6: the slot list holds the slot of every member of every complete set
\* and no other slot; a set whose number of members differs from its
\* declared count yields no record and no slot and stays in the map as it
\* was.
C6_Slots ==
    fpc = "done" =>
        /\ Reported = UNION { SlotsOfSet(held[r]) :
                                r \in { q \in DOMAIN held : WasEmitted(q) } }
        /\ \A r \in DOMAIN held :
             Len(held[r]) # Declared(held[r]) =>
                /\ ~WasEmitted(r)
                /\ SlotsOfSet(held[r]) \cap Reported = {}
                /\ fragments[r] = held[r]
        /\ \A r \in DOMAIN held :
             Len(held[r]) = Declared(held[r]) =>
                /\ WasEmitted(r)
                /\ SlotsOfSet(held[r]) \subseteq Reported

\* C6's case: two of three declared members of one set were ingested beside
\* a complete set of one; only the slot of the latter is reported.
C6_Witness ==
    /\ fpc = "done"
    /\ \E r \in DOMAIN held : Len(held[r]) = 2 /\ Declared(held[r]) = 3
    /\ Len(read_idx) = 1
    /\ Len(messages) = 1

(***************************************************************************)
(* Further claims about the session, checked under Spec and FairSpec.      *)
(***************************************************************************)
\* The poll succeeded and the +CREG: line of its response carries one of
\* the accepted status codes.
PollAccepted(p) == p.ok /\ p.status \in AcceptedStatus

\* C11: a poll that succeeds with an accepted status code (1, 5, 6 or 7)
\* before the deadline ends check_connection at once: no sleep follows it,
\* no further poll is made and the clock is not advanced by a wait; send
\* goes on, without an error of check_connection, to AT+CMGF=0 and from
\* there to the send-prompt exchange of the first chunk, which it reaches
\* unless the transport fails or an interrupt arrives first.
C11_RegisteredProceeds ==
    /\ [][(/\ pc = "cc_poll"
           /\ polls' = polls + 1
           /\ exc' = "none"
           /\ PollAccepted(lastPoll'))
            => (pc' = "send_cmgf" /\ regSeen' /\ ~ccDeadline')]_vars
    /\ [][regSeen => (polls' = polls /\ clock' = clock)]_vars
    /\ [](regSeen => (~ccDeadline /\ exc # "RuntimeError"))
    /\ [][(pc = "send_cmgf" /\ exc' = "none" /\ ~interrupted')
            => (pc' = "send_prompt" /\ chunk' = 1)]_vars
    /\ [][(pc = "send_cmgf" /\ pc' # "send_prompt")
            => (exc' = "IOError" \/ interrupted')]_vars
    /\ regSeen ~> (1 \in cmgsSent \/ pc \in InCleanup \cup {"exited"})

\* C11's case: the first poll was refused, the second carried status 5, and
\* AT+CMGS was written for the first chunk after two polls.
C11_Witness ==
    /\ regSeen
    /\ polls = 2
    /\ lastPoll = [ok |-> TRUE, status |-> "5"]
    /\ 1 \in cmgsSent
    /\ exc = "none"

(***************************************************************************)
(* SpecRecv: receive from line 273 on, with list_messages (lines 227-239)  *)
(* and what the modem's storage holds.  A stored message is empty, read or *)
(* unread; its pdu is one the codec decodes or one it rejects; a decoded   *)
(* message has a date and, when it is a part of a concatenated message,    *)
(* ref, cnt and seq.  Dates are hours relative to datetime.now().          *)
(***************************************************************************)
MaxStore == 2

\* now (line 279) and the default of --maxage (line 119), in hours.
Now == 0
MaxAge == 1

\* The (cnt, seq) a part can declare.
Parts == { << 1, 1 >>, << 2, 1 >>, << 2, 2 >> }

\* What one storage slot can hold.  What is never looked at is held at one
\* value: the date of an unread message (line 281 is applied to the read
\* ones only) and everything inside a pdu the codec rejects.
Stored ==
    { m \in [stat : {"empty", "read", "unread"}, bad : BOOLEAN,
             date : {Now - 2, Now}, ref : {NoKey, "r1"}, cnt : 0..2, seq : 0..2] :
        /\ (m.stat = "empty" \/ m.bad) => (m.date = Now /\ m.ref = NoKey)
        /\ m.stat = "empty" => ~m.bad
        /\ m.stat = "unread" => m.date = Now
        /\ IF m.ref = NoKey THEN m.cnt = 0 /\ m.seq = 0
                            ELSE << m.cnt, m.seq >> \in Parts }

Stores == [1..MaxStore -> Stored]

\* Line 231: the slots of the entries of an AT+CMGL=<n> response, in
\* the order the modem lists them.
Entries(st, want) ==
    LET Listed(k) == st[k].stat = want
    IN  SelectSeq([k \in 1..Len(st) |-> k], Listed)

\* Lines 234-237: the record SmsDeliver hands over for the entry of slot k,
\* with idx attached.  A message that is not a part has no key ref.
Deliver(st, k) ==
    [ref |-> st[k].ref, cnt |-> st[k].cnt, seq |-> st[k].seq, idx |-> k,
     date |-> st[k].date, number |-> k, text |-> << k >>]

\* Line 234: SmsDeliver raises on an entry it cannot decode; nothing in
\* list_messages or receive catches that.
CodecRejects(o, st, want) ==
    /\ o = "ok"
    /\ \E i \in 1..Len(Entries(st, want)) : st[Entries(st, want)[i]].bad

\* ListMessages that hands over what it could decode whatever the result.
ListMessagesPartial(o, st, want) ==
    [result |-> (o = "ok"),
     messages |-> [i \in 1..Len(Entries(st, want)) |-> Deliver(st, Entries(st, want)[i])]]

\* Lines 228-239: what list_messages returns when no entry is rejected.
ListMessages(o, st, want) ==
    IF o = "ok"
      THEN [result |-> TRUE,
            messages |-> [i \in 1..Len(Entries(st, want)) |->
                            Deliver(st, Entries(st, want)[i])]]
      ELSE [result |-> FALSE, messages |-> << >>]

\* Lines 283 and 289: 'ref' in message.
HasRef(m) == m.ref # NoKey

\* Line 281: message['date'] < now - timedelta(hours=self.maxage).
IsOld(m) == m.date < Now - MaxAge

\* Lines 284 and 290 over a whole list: the dict and its key order after
\* every record of msgs that has a ref was collected.
RECURSIVE CollectAll(_, _)
CollectAll(acc, msgs) ==
    IF msgs = << >> THEN acc
    ELSE CollectAll(IF HasRef(msgs[1])
                      THEN [frs |-> AddFragment(acc.frs, msgs[1]),
                            ord |-> AddKey(acc.ord, acc.frs, msgs[1])]
                      ELSE acc,
                    Tail(msgs))

\* Lines 281-282: the slots of the listed messages older than maxage.
OldSlots(msgs) == SlotsOf(SelectSeq(msgs, IsOld))

\* Lines 291-293: the listed messages that are not parts.
Plain(msgs) ==
    LET NoRef(m) == ~HasRef(m)
    IN  SelectSeq(msgs, NoRef)

\* Line 297 writes AT+CMGD=1,1; line 300 writes AT+CMGD=<idx>.
BulkDelete == [index |-> 1, delflag |-> 1]

SlotDelete(k) == [index |-> k, delflag |-> 0]

\* DeleteList with --preserve not looked at.
DeleteListIgnoringPreserve(policy, idxs) ==
    IF policy = "deleteall" THEN << BulkDelete >>
    ELSE [i \in 1..Len(idxs) |-> SlotDelete(idxs[i])]

\* Lines 296-300: the delete commands receive writes, in order, for the
\* slot list idxs = read_idx + frag_read_idx.
DeleteList(policy, idxs) ==
    IF policy = "deleteall" THEN << BulkDelete >>
    ELSE IF policy = "preserve" THEN << >>
    ELSE [i \in 1..Len(idxs) |-> SlotDelete(idxs[i])]

\* The session's variables that receive's steps here leave alone.
sessRest == << cfg, pc, status, exitCode, ser, powerVars, regVars, sendVars, atFailed,
               step, recvVars, monVars, sigVars >>

InitRecv ==
    /\ cfg \in { c \in Configs : c.cmd = "recv" /\ c.pwrpin = 0 }
    /\ pc = "off"
    /\ SessZero
    /\ AtZero
    /\ fpc = "off"
    /\ FragZero
    /\ rpc = "list_read"
    /\ store \in Stores
    /\ listed = [result |-> FALSE, messages |-> << >>]
    /\ recv_read_idx = << >>
    /\ recv_messages = << >>
    /\ stdout = << >>
    /\ todo = << >>
    /\ cmds = << >>
    /\ spc = "off"
    /\ AckZero

\* An exception e leaves receive.
RecvRaise(e) ==
    /\ rpc' = "raised"
    /\ exc' = e
    /\ UNCHANGED << ret, listed, recv_read_idx, recv_messages, fragments, order, fpc >>

\* Lines 277-284: the read messages are listed; the slots of the old ones
\* are noted and the parts among them collected.
RecvListRead ==
    /\ rpc = "list_read"
    /\ \E o \in AtOutcomes :
         IF o = "raise" THEN RecvRaise("IOError")
         ELSE IF CodecRejects(o, store, "read") THEN RecvRaise("CodecError")
         ELSE LET got == ListMessages(o, store, "read")
                  col == CollectAll([frs |-> fragments, ord |-> order], got.messages)
              IN  /\ listed' = got
                  /\ recv_read_idx' = (IF got.result THEN OldSlots(got.messages)
                                                      ELSE recv_read_idx)
                  /\ fragments' = (IF got.result THEN col.frs ELSE fragments)
                  /\ order' = (IF got.result THEN col.ord ELSE order)
                  /\ rpc' = "list_unread"
                  /\ UNCHANGED << ret, exc, recv_messages, fpc >>
    /\ UNCHANGED << sessRest, atVars, ackVars, store, stdout, todo, cmds, slot, held,
                    messages, read_idx, emitted >>

\* Lines 286-293 and 302-304: the unread messages are listed; the parts
\* are collected, the others go to messages and their slots to read_idx.
\* When the listing fails receive returns False.
RecvListUnread ==
    /\ rpc = "list_unread"
    /\ \E o \in AtOutcomes :
         IF o = "raise" THEN RecvRaise("IOError")
         ELSE IF CodecRejects(o, store, "unread") THEN RecvRaise("CodecError")
         ELSE LET got == ListMessages(o, store, "unread")
                  col == CollectAll([frs |-> fragments, ord |-> order], got.messages)
              IN  /\ listed' = got
                  /\ IF got.result
                       THEN /\ recv_messages' = Plain(got.messages)
                            /\ recv_read_idx' = recv_read_idx \o SlotsOf(Plain(got.messages))
                            /\ fragments' = col.frs
                            /\ order' = col.ord
                            /\ rpc' = "collect"
                            /\ fpc' = "ingest"
                            /\ ret' = ret
                       ELSE /\ rpc' = "returned"
                            /\ ret' = "False"
                            /\ UNCHANGED << recv_messages, recv_read_idx, fragments,
                                            order, fpc >>
                  /\ exc' = exc
    /\ UNCHANGED << sessRest, atVars, ackVars, store, stdout, todo, cmds, slot, held,
                    messages, read_idx, emitted >>

\* Line 295, after collect_fragments(fragments, process=True) of line 294
\* (the step Process): the array messages + long_messages is printed.
RecvPrint ==
    /\ rpc = "collect"
    /\ fpc = "done"
    /\ stdout' = Append(stdout, recv_messages \o messages)
    /\ todo' = DeleteList(cfg.policy, recv_read_idx \o read_idx)
    /\ rpc' = "delete"
    /\ UNCHANGED << sessVars, atVars, fragVars, ackVars, store, listed, recv_read_idx,
                    recv_messages, cmds >>

\* Lines 297 and 300: the next delete command; its result is not looked at.
RecvDelete ==
    /\ rpc = "delete"
    /\ todo # << >>
    /\ \E o \in AtOutcomes :
         IF o = "raise"
           THEN /\ RecvRaise("IOError")
                /\ UNCHANGED << todo, cmds >>
           ELSE /\ cmds' = Append(cmds, Head(todo))
                /\ todo' = Tail(todo)
                /\ UNCHANGED << rpc, ret, exc, listed, recv_read_idx, recv_messages,
                                fragments, order, fpc >>
    /\ UNCHANGED << sessRest, atVars, ackVars, store, stdout, slot, held, messages,
                    read_idx, emitted >>

\* Line 301.
RecvReturn ==
    /\ rpc = "delete"
    /\ todo = << >>
    /\ rpc' = "returned"
    /\ ret' = "True"
    /\ UNCHANGED << sessRest, exc, atVars, fragVars, ackVars, store, listed,
                    recv_read_idx, recv_messages, stdout, todo, cmds >>

NextRecv ==
    \/ RecvListRead
    \/ RecvListUnread
    \/ Process
    \/ RecvPrint
    \/ RecvDelete
    \/ RecvReturn

SpecRecv == InitRecv /\ [][NextRecv]_vars

(***************************************************************************)
(* Claims about receive and list_messages, checked under SpecRecv.         *)
(***************************************************************************)
IsPrefix(a, b) == Len(a) <= Len(b) /\ a = SubSeq(b, 1, Len(a))

\* One per-slot delete command for each entry of the listed-slot list
\* followed by the reassembler's slot list.
PerSlotDeletes ==
    [i \in 1..Len(recv_read_idx \o read_idx) |->
       [index |-> (recv_read_idx \o read_idx)[i], delflag |-> 0]]

\* C12: no delete command is written before the message array was printed;
\* under preserve none is written at all; under delete-all the only command
\* ever written is the bulk delete, once; under the default policy the
\* commands written are per-slot deletes, one for each entry of the
\* listed-slot list followed by the reassembler's slot list; and a receive
\* that returns success has written all of them.
C12_DeletePolicy ==
    /\ cmds # << >> => Len(stdout) = 1
    /\ cfg.policy = "preserve" => cmds = << >>
    /\ cfg.policy = "deleteall" =>
         /\ IsPrefix(cmds, << [index |-> 1, delflag |-> 1] >>)
         /\ (rpc = "returned" /\ ret = "True") => Len(cmds) = 1
    /\ cfg.policy = "default" =>
         /\ IsPrefix(cmds, PerSlotDeletes)
         /\ (rpc = "returned" /\ ret = "True") => cmds = PerSlotDeletes

\* C12's case: under the default policy an unread message in slot 1 and a
\* complete one-part message in slot 2 were printed, then both deleted.
C12_Witness ==
    /\ rpc = "returned"
    /\ ret = "True"
    /\ cfg.policy = "default"
    /\ recv_read_idx = << 1 >>
    /\ read_idx = << 2 >>
    /\ Len(stdout) = 1
    /\ cmds = << [index |-> 1, delflag |-> 0], [index |-> 2, delflag |-> 0] >>

(***************************************************************************)
(* Further claims about at_command, checked under SpecAt.                  *)
(***************************************************************************)
\* The steps of one invocation before its read, in the order of the claim.
AtOrder == << "discard", "cancel", "command", "timeout" >>

\* What has been written once the first n steps of AtOrder are done.
WrittenAfter(n) ==
    IF n >= 3 THEN << "ESC", command, "CR", "LF" >>
    ELSE IF n = 2 THEN << "ESC" >>
    ELSE << >>

\* C13: one invocation of at_command discards the unread input, writes ESC,
\* writes the command followed by CR LF and sets the read timeout, each
\* once and in this order, and only then reads; what it has written is at
\* any time ESC and then the command once, never the command a second
\* time, and nothing before the input was discarded; the discard leaves no
\* unread input.
C13_AtOrder ==
    /\ [](/\ IsPrefix(steps, AtOrder)
          /\ tx = WrittenAfter(Len(steps))
          /\ atPc \in {"read", "decode", "returned", "raised"} => steps = AtOrder
          /\ (taken # << >> \/ timedOut) => steps = AtOrder)
    /\ [][(steps = << >> /\ steps' # << >>) => (steps' = << "discard" >> /\ rx' = << >>)]_vars

\* C13's case: an invocation has returned after a byte that had arrived
\* before the discard was thrown away.
C13_Witness ==
    /\ atPc = "returned"
    /\ steps = AtOrder
    /\ tx = << "ESC", "command", "CR", "LF" >>
    /\ MaxRx - modemLeft > Len(taken) + Len(rx)

(***************************************************************************)
(* Claims about the power sequencer, checked under Spec and FairSpec.      *)
(***************************************************************************)
\* The level power_up leaves the pin at: inactive after a pulse, active
\* when no pulse duration is configured.
LevelAfterPowerUp == IF cfg.pwrup # 0 THEN "inactive" ELSE "active"

C15_ListingFailure ==
    /\ [](~listed.result => listed.messages = << >>)
    /\ [][(rpc = "list_unread" /\ rpc' # "raised" /\ ~listed'.result)
            => (rpc' = "returned" /\ ret' = "False")]_vars
    /\ []((rpc = "returned" /\ ret = "False") =>
            (~listed.result /\ stdout = << >> /\ cmds = << >> /\ todo = << >>))

\* C15's case: the read listing named an old message for deletion, the
\* unread listing failed although an unread message is stored: receive
\* returned False with nothing listed, printed or deleted.
C15_Witness ==
    /\ rpc = "returned"
    /\ ret = "False"
    /\ recv_read_idx # << >>
    /\ \E k \in 1..MaxStore : store[k].stat = "unread" /\ ~store[k].bad
    /\ listed = [result |-> FALSE, messages |-> << >>]
    /\ stdout = << >>
    /\ cmds = << >>

\* The records of the entries of a listing that the codec decodes.
WellFormed(st, want) ==
    LET Good(k) == ~st[k].bad
        slots == SelectSeq(Entries(st, want), Good)
    IN  [i \in 1..Len(slots) |-> Deliver(st, slots[i])]

\* C16: an entry the codec rejects is skipped: receive is never left by the
\* codec's exception, and a listing whose exchange succeeded returns the
\* records of all its other entries.
C16_MalformedSkipped ==
    /\ exc # "CodecError"
    /\ (rpc = "list_unread" /\ listed.result) =>
         listed.messages = WellFormed(store, "read")
    /\ (rpc \in {"collect", "delete", "returned"} /\ listed.result) =>
         listed.messages = WellFormed(store, "unread")

C17_MonitorNeverEnds ==
    /\ [](cfg.cmd = "monitor" => ret = "none")
    /\ [][(pc = "mon_read" /\ monLines' = monLines + 1 /\ ~interrupted')
            => /\ pc' = "mon_read"
               /\ exc' = "none"
               /\ hookRuns' = hookRuns + (IF lastLine' = "cmti" /\ cfg.hook THEN 1 ELSE 0)]_vars
    /\ [][(pc = "mon_read" /\ pc' # "mon_read") => (interrupted' \/ exc' = "IOError")]_vars

(***************************************************************************)
(* SpecAck: the loop of send (lines 212-225) with each of its exchanges    *)
(* run byte by byte by the steps of at_command, against a modem that       *)
(* answers: it emits '>' for every AT+CMGS it is sent and 'OK' for every   *)
(* submit byte, each byte at a time of its own choosing but before the     *)
(* read that waits for it times out.                                       *)
(***************************************************************************)
\* What the modem emits for one thing written to it.
AnswerTo(w) ==
    CASE w = "AT+CMGS" -> << 62 >>
      [] w = "SUB" -> << 79, 75 >>
      [] OTHER -> << >>

\* All the modem emits for what was written so far.
RECURSIVE Due(_)
Due(written) ==
    IF written = << >> THEN << >>
    ELSE Due(SubSeq(written, 1, Len(written) - 1)) \o AnswerTo(written[Len(written)])

\* The session's variables that the loop of send leaves alone here.
sendRest == << cfg, pc, exc, status, exitCode, ser, powerVars, regVars, cmgsSent, pduSent,
               acked, promptFailed, ackFailed, atFailed, step, recvVars, monVars, sigVars >>

InitAck ==
    /\ cfg \in { c \in Configs : c.cmd = "send" /\ c.pwrpin = 0 /\ c.wait = 0
                                  /\ c.message = "text" }
    /\ pc = "off"
    /\ SessZero
    /\ AtZero
    /\ fpc = "off"
    /\ FragZero
    /\ rpc = "off"
    /\ RcvZero
    /\ spc = "loop"
    /\ AckZero

\* at_command is called with command c and terminator b (lines 181-182).
AtCall(c, b) ==
    /\ atPc' = "reset"
    /\ command' = c
    /\ back' = b
    /\ steps' = << >>
    /\ line' = << >>
    /\ taken' = << >>
    /\ timedOut' = FALSE
    /\ result' = FALSE
    /\ response' = << >>
    /\ UNCHANGED << rx, tx, modemLeft >>

\* The modem puts the next byte it owes on the line.
ModemAnswers ==
    /\ Len(modemSent) < Len(Due(tx))
    /\ rx' = Append(rx, Due(tx)[Len(modemSent) + 1])
    /\ modemSent' = Append(modemSent, Due(tx)[Len(modemSent) + 1])
    /\ UNCHANGED << sessVars, fragVars, rcvVars, spc, atPc, command, back, steps, tx, line,
                    taken, timedOut, result, response, modemLeft >>

\* Line 212: the for statement takes the first pdu.
SendEnterLoop ==
    /\ spc = "loop"
    /\ chunk' = 1
    /\ spc' = "call_prompt"
    /\ UNCHANGED << sendRest, ret, atVars, fragVars, rcvVars, modemSent >>

\* Line 213: at_command('AT+CMGS=%d\r' % pdu.length, ">", 2) is called.
SendCallPrompt ==
    /\ spc = "call_prompt"
    /\ AtCall("AT+CMGS", << ">" >>)
    /\ spc' = "in_prompt"
    /\ UNCHANGED << sessVars, fragVars, rcvVars, modemSent >>

\* Line 188 in this setting: the read times out only when the modem has
\* emitted all it owes and nothing of it is left unread.
AckReadTimeout ==
    /\ Len(modemSent) = Len(Due(tx))
    /\ rx = << >>
    /\ AtReadTimeout

\* The outcome of a returned exchange as send sees it.
Outcome(r) == IF r THEN "ok" ELSE "fail"

\* What send does next, for the target t that AfterPrompt or AfterAck names.
SendTo(t) ==
    /\ spc' = CASE t = "body" -> "write_pdu"
                [] t = "next" -> "call_prompt"
                [] OTHER -> "returned"
    /\ chunk' = IF t = "next" THEN chunk + 1 ELSE chunk
    /\ ret' = CASE t = "return_true" -> "True"
                [] t = "return_false" -> "False"
                [] OTHER -> ret

\* Lines 213-214: the send-prompt exchange has returned.
SendAfterPrompt ==
    /\ spc = "in_prompt"
    /\ atPc = "returned"
    /\ SendTo(AfterPrompt(Outcome(result), chunk))
    /\ atPc' = "off"
    /\ UNCHANGED << sendRest, fragVars, rcvVars, modemSent, command, back, steps, rx, tx,
                    line, taken, timedOut, result, response, modemLeft >>

\* Lines 216-217: the pdu and the submit byte are written.
SendWritePdu ==
    /\ spc = "write_pdu"
    /\ tx' = tx \o << "pdu", "SUB" >>
    /\ spc' = "call_ack"
    /\ UNCHANGED << sessVars, fragVars, rcvVars, modemSent, atPc, command, back, steps, rx,
                    line, taken, timedOut, result, response, modemLeft >>

\* Line 218: at_command('', 'OK', 5) is called.
SendCallAck ==
    /\ spc = "call_ack"
    /\ AtCall("", << "O", "K" >>)
    /\ spc' = "in_ack"
    /\ UNCHANGED << sessVars, fragVars, rcvVars, modemSent >>

\* Lines 218-225: the final-acknowledgment exchange has returned.
SendAfterAck ==
    /\ spc = "in_ack"
    /\ atPc = "returned"
    /\ SendTo(AfterAck(Outcome(result), chunk))
    /\ atPc' = "off"
    /\ UNCHANGED << sendRest, fragVars, rcvVars, modemSent, command, back, steps, rx, tx,
                    line, taken, timedOut, result, response, modemLeft >>

NextAck ==
    \/ ModemAnswers
    \/ SendEnterLoop
    \/ SendCallPrompt
    \/ SendAfterPrompt
    \/ SendWritePdu
    \/ SendCallAck
    \/ SendAfterAck
    \/ AtResetInput
    \/ AtWriteEsc
    \/ AtWriteCommand
    \/ AtSetTimeout
    \/ AtReadByte
    \/ AckReadTimeout
    \/ AtClassify

SpecAck == InitAck /\ [][NextAck]_vars

\* C18: against a modem that answers every send-prompt with '>' and every
\* submitted chunk with 'OK' before the read for it times out, send returns
\* True, whenever the modem's bytes arrive between the host's steps.
C18_AckNotLost == spc = "returned" => ret = "True"

(***************************************************************************)
(* Further claims about receive, checked under SpecRecv.                   *)
(***************************************************************************)
\* The slots whose message is in the printed array: an unread message that
\* is not a part, or a member of a set that was reassembled.
PrintedSlots ==
    { recv_messages[i].idx : i \in 1..Len(recv_messages) }
      \cup UNION { SlotsOfSet(held[r]) : r \in { q \in DOMAIN held : WasEmitted(q) } }

\* The slots of the already-read messages older than the max age.
OldReadSlots ==
    { k \in 1..Len(store) :
        store[k].stat = "read" /\ ~store[k].bad /\ store[k].date < Now - MaxAge }

\* C20: under the default policy no slot is named by two of the delete
\* commands of one receive, and every slot deleted holds a message that
\* was printed or an already-read message older than the max age.
C20_DeleteOnce ==
    cfg.policy = "default" =>
        /\ \A i, j \in 1..Len(cmds) : i # j => cmds[i].index # cmds[j].index
        /\ \A i \in 1..Len(cmds) :
             /\ cmds[i].delflag = 0
             /\ cmds[i].index \in PrintedSlots \cup OldReadSlots

=============================================================================
